---- MODULE Spec2Model ----
(***************************************************************************)
(* Random boolean network (src/rbn/network.py).                            *)
(*                                                                         *)
(* Python values are represented as follows.                               *)
(*   list        a sequence; Python index i is TLA+ index i + 1            *)
(*   dict        a sequence of [key, value] records in insertion order,    *)
(*               which is the order .items() iterates in (the adjacency    *)
(*               dicts); a rule table, which is only ever looked up by     *)
(*               key, is a function from its key strings to its outputs    *)
(*   str         a TLA+ string; ''.join is concatenation                   *)
(*   float       a probability p is the integer 100 * p                    *)
(*   random      a choice among all outcomes the generator can produce     *)
(***************************************************************************)
EXTENDS Integers, Sequences, FiniteSets, TLC

\* Largest arguments handed to Network(...): |num_nodes| + |num_edges| <= MaxSize.
MaxSize == 4
\* Largest num_nodes / num_edges handed to edge_algorithm_uniform directly.
GenMaxNodes == 2
GenMaxEdges == 5
\* Longest bit sequence handed to _generate_base_truth_inputs / _create_truth_key.
MaxInputs == 3
\* Largest network main() builds: num_nodes + num_edges <= ImageMaxSize.
ImageMaxSize == 2
\* Largest num_transitions / num_disturbances handed to generate_image.
MaxTransitions == 3
MaxDisturbances == 2
\* Most transition_state calls made in a row on one network.
OrbitMaxSteps == 8
\* Network(..., node_rule_activation_probability=0.1) in main()
MainRuleProbability == 10
\* initial_state_probability: float = 0.5
DefaultInitialStateProbability == 50
\* generate_image(..., disturbance_factor=0.1) in main()
MainDisturbanceFactor == 10

\* Arguments tried: sizes from -1 (invalid) up, probabilities from -0.5 to 1.5.
SizeArgs == -1..MaxSize
size_of(n, e) == (IF n > 0 THEN n ELSE -n) + (IF e > 0 THEN e ELSE -e)
GenNumNodesArgs == -1..GenMaxNodes
GenNumEdgesArgs == -1..GenMaxEdges
ProbArgs == {-50, 0, 50, 100, 150}
NumInputsArgs == 0..MaxInputs

VARIABLES
  pc,                     \* where the program is: start, edge_loop, returned,
                          \* cleaned, ready, raised
  error,                  \* the exception that ended the program, or "none"
  call,                   \* arguments of the running __init__ / edge_algorithm_uniform
  adjacency_list,         \* edge_algorithm_uniform: local, then return value
  edges,                  \* edge_algorithm_uniform: local set of (node0, node1)
  num_nodes,              \* self.num_nodes
  num_edges,              \* self.num_edges
  node_dependency_lists,  \* self.node_dependency_lists
  node_transition_rules,  \* self.node_transition_rules
  node_states,            \* self.node_states
  last_call,              \* the Network method that ran last (history)
  base_num_inputs,        \* the argument of the last _generate_base_truth_inputs call
  base_inputs,            \* the list _generate_base_truth_inputs returned last
  key_inputs,             \* the arguments _create_truth_key was called with
  keys,                   \* the strings those calls returned, in the same order
  num_transitions,        \* generate_image: argument
  num_disturbances,       \* generate_image: argument
  disturbance_times,      \* generate_image: local; None is held as the empty
                          \* list, which get_disturbance_time_slices never returns
  loop_i,                 \* generate_image: the loop variable i
  pixels,                 \* generate_image: the image, a list of columns
  calls,                  \* the calls generate_image has made (history)
  time_steps              \* the state vector of each discrete time step of
                          \* the run so far: initial, after 1 transition, ... (history)

codec == <<base_num_inputs, base_inputs, key_inputs, keys>>

image_run == <<num_transitions, num_disturbances, disturbance_times, loop_i, pixels, calls>>

outside_network == <<codec, image_run, time_steps>>

vars == <<pc, error, call, adjacency_list, edges, num_nodes, num_edges,
          node_dependency_lists, node_transition_rules, node_states, last_call,
          outside_network>>

network == <<num_nodes, num_edges, node_dependency_lists, node_transition_rules, node_states>>

NoCall == [fn |-> "none", num_nodes |-> 0, num_edges |-> 0, rule_p |-> 0, init_p |-> 0]

----------------------------------------------------------------------------
(* Python built-ins *)

\* range(n) as a list: 0, 1, ..., n-1; empty when n <= 0.
range(n) == [i \in 1..n |-> i - 1]

\* str(i) for the ints that occur (bits).
str(i) == IF i = 0 THEN "0" ELSE IF i = 1 THEN "1" ELSE "?"

\* d[k] for a dict held as its item sequence.
dict_get(d, k) == d[CHOOSE i \in 1..Len(d) : d[i].key = k].value

\* random.choices([0, 1], weights=[1 - p, p])[0]: cum_weights = [1 - p, 1],
\* x = random() * 1.0 in [0, 1), result = [0, 1][bisect(cum_weights, x, 0, 1)]:
\* 0 when x < 1 - p, else 1.  No weight is validated: p < 0 always gives 0 and
\* p > 1 always gives 1.
random_choices(p) ==
  (IF 100 - p > 0 THEN {0} ELSE {}) \cup (IF 100 - p < 100 THEN {1} ELSE {})

----------------------------------------------------------------------------
(* edge_algorithm_uniform *)

\* adjacency_list = {i: [] for i in range(num_nodes)}
empty_adjacency(n) == [i \in 1..Len(range(n)) |-> [key |-> range(n)[i], value |-> <<>>]]

\* adjacency_list[node1].append(node0)
adjacency_append(adj, node1, node0) ==
  [i \in 1..Len(adj) |->
     IF adj[i].key = node1 THEN [adj[i] EXCEPT !.value = Append(@, node0)] ELSE adj[i]]

\* A loop body that appends without looking the edge up in edges.
loop_body_no_dedup(adj, seen, node0, node1) ==
  [adjacency_list |-> adjacency_append(adj, node1, node0),
   edges |-> seen \cup {<<node0, node1>>}]

\* One pass of the while body after the two draws.
loop_body(adj, seen, node0, node1) ==
  LET edge == <<node0, node1>> IN
    IF edge \notin seen
      THEN [adjacency_list |-> adjacency_append(adj, node1, node0),
            edges |-> seen \cup {edge}]
      ELSE [adjacency_list |-> adj, edges |-> seen]

\* A loop test that lets the loop run once more.
loop_condition_inclusive(seen, n_edges) == Cardinality(seen) <= n_edges

\* while len(edges) < num_edges
loop_condition(seen, n_edges) == Cardinality(seen) < n_edges

----------------------------------------------------------------------------
(* Network: static helpers *)

\* A cleanup that returns the adjacency list as generated.
cleanup_adjacency_none(adj) == adj

\* Network._cleanup_adjacency
cleanup_adjacency(adj) ==
  [i \in 1..Len(adj) |->
     [key |-> adj[i].key,
      value |-> IF adj[i].value = <<>> THEN <<adj[i].key>> ELSE adj[i].value]]

\* An enumeration with the first position varying fastest.
RECURSIVE generate_base_truth_inputs_first_fastest(_)
generate_base_truth_inputs_first_fastest(num_inputs) ==
  IF num_inputs <= 0 THEN << <<>> >>
  ELSE LET shorter == generate_base_truth_inputs_first_fastest(num_inputs - 1) IN
         [j \in 1..(2 * Len(shorter)) |->
            shorter[((j - 1) % Len(shorter)) + 1] \o <<(j - 1) \div Len(shorter)>>]

\* Network._generate_base_truth_inputs: itertools.product([0, 1], repeat=num_inputs),
\* the last position varying fastest.
RECURSIVE generate_base_truth_inputs(_)
generate_base_truth_inputs(num_inputs) ==
  IF num_inputs <= 0 THEN << <<>> >>
  ELSE LET shorter == generate_base_truth_inputs(num_inputs - 1) IN
         [j \in 1..(2 * Len(shorter)) |->
            <<(j - 1) \div Len(shorter)>> \o shorter[((j - 1) % Len(shorter)) + 1]]

\* A key that leaves out the zeros.
RECURSIVE create_truth_key_nonzero(_)
create_truth_key_nonzero(truth_inputs) ==
  IF truth_inputs = <<>> THEN ""
  ELSE (IF Head(truth_inputs) = 0 THEN "" ELSE str(Head(truth_inputs)))
         \o create_truth_key_nonzero(Tail(truth_inputs))

\* Network._create_truth_key: ''.join(str(i) for i in truth_inputs)
RECURSIVE create_truth_key(_)
create_truth_key(truth_inputs) ==
  IF truth_inputs = <<>> THEN ""
  ELSE str(Head(truth_inputs)) \o create_truth_key(Tail(truth_inputs))

\* truth_keys of _generate_rules for one node.
truth_keys_of(adjacent_nodes) ==
  LET inputs == generate_base_truth_inputs(Len(adjacent_nodes)) IN
    [j \in 1..Len(inputs) |-> create_truth_key(inputs[j])]

\* Network._assign_truth_mapping: every dict the comprehension can produce.
assign_truth_mapping(truth_keys, p) ==
  [{truth_keys[j] : j \in 1..Len(truth_keys)} -> random_choices(p)]

\* Rule generation that sizes every table for one input fewer.
RECURSIVE generate_rules_short(_, _)
generate_rules_short(deps, p) ==
  IF deps = <<>> THEN {<<>>}
  ELSE LET front == SubSeq(deps, 1, Len(deps) - 1)
           adjacent_nodes == deps[Len(deps)].value
       IN {Append(node_rules, node_rule) :
             node_rules \in generate_rules_short(front, p),
             node_rule \in assign_truth_mapping(truth_keys_of(Tail(adjacent_nodes)), p)}

\* Network._generate_rules: every node_rules list the loop can produce.
RECURSIVE generate_rules(_, _)
generate_rules(deps, p) ==
  IF deps = <<>> THEN {<<>>}
  ELSE LET front == SubSeq(deps, 1, Len(deps) - 1)
           adjacent_nodes == deps[Len(deps)].value
       IN {Append(node_rules, node_rule) :
             node_rules \in generate_rules(front, p),
             node_rule \in assign_truth_mapping(truth_keys_of(adjacent_nodes), p)}

----------------------------------------------------------------------------
(* Network: state *)

\* An initialize_state whose loop makes one pass too many.
initialize_state_outcomes_one_more(n, p) == [1..Len(range(n + 1)) -> random_choices(p)]

\* Network.initialize_state: every new_states list the loop can produce, one
\* draw per pass of range(self.num_nodes).
initialize_state_outcomes(n, p) == [1..Len(range(n)) -> random_choices(p)]

\* A lookup that returns the whole state vector.
get_dependency_node_states_all(states, dependency_nodes) == states

\* Network._get_dependency_node_states
get_dependency_node_states(states, dependency_nodes) ==
  [j \in 1..Len(dependency_nodes) |-> states[dependency_nodes[j] + 1]]

\* Whether every subscript of transition_state is defined.
transition_defined(deps, rules, states) ==
  \A i \in 1..Len(deps) :
    /\ deps[i].key \in 0..(Len(rules) - 1)
    /\ \A j \in 1..Len(deps[i].value) : deps[i].value[j] \in 0..(Len(states) - 1)
    /\ create_truth_key(get_dependency_node_states(states, deps[i].value))
         \in DOMAIN rules[deps[i].key + 1]

\* An update that writes each node's new value into the vector the next nodes read.
RECURSIVE transition_in_place(_, _, _, _)
transition_in_place(deps, rules, states, done) ==
  IF done >= Len(deps) THEN states
  ELSE LET item == deps[done + 1]
           node_rule_map == rules[item.key + 1]
           truth_key == create_truth_key(get_dependency_node_states(states, item.value))
       IN transition_in_place(deps, rules,
            [states EXCEPT ![done + 1] = node_rule_map[truth_key]], done + 1)

new_node_states_in_place(deps, rules, states) == transition_in_place(deps, rules, states, 0)

\* Network.transition_state: new_node_states after the loop over the first
\* `done` items of node_dependency_lists.
RECURSIVE transition_loop(_, _, _, _)
transition_loop(deps, rules, states, done) ==
  IF done = 0 THEN <<>>
  ELSE LET item == deps[done]
           node_rule_map == rules[item.key + 1]
           truth_key == create_truth_key(get_dependency_node_states(states, item.value))
       IN Append(transition_loop(deps, rules, states, done - 1), node_rule_map[truth_key])

\* An update that appends the new values to the old vector.
new_node_states_appending(deps, rules, states) ==
  states \o transition_loop(deps, rules, states, Len(deps))

new_node_states(deps, rules, states) == transition_loop(deps, rules, states, Len(deps))

\* A disturbance whose inverting branch appends the value as it is.
disturbance_outcomes_no_flip(states, p) ==
  {[i \in 1..Len(states) |-> IF should_invert[i] # 0 THEN states[i] ELSE states[i]] :
     should_invert \in [1..Len(states) -> random_choices(p)]}

\* Network.introduce_disturbance: every new_node_states list the loop can
\* produce, should_invert[i] being the draw made for the i-th node_state.
disturbance_outcomes(states, p) ==
  {[i \in 1..Len(states) |->
      IF should_invert[i] # 0 THEN (IF states[i] = 1 THEN 0 ELSE 1) ELSE states[i]] :
     should_invert \in [1..Len(states) -> random_choices(p)]}

\* Network.print_stats: sum(len(nodes) for nodes in ...values())
RECURSIVE total_number_of_edges(_)
total_number_of_edges(deps) ==
  IF deps = <<>> THEN 0 ELSE Len(Head(deps).value) + total_number_of_edges(Tail(deps))

\* Network.print_stats: max() of an empty sequence raises ValueError.
print_stats_raises(deps) == deps = <<>>

\* Network.print_stats: max(len(nodes) for nodes in ...values()), where defined.
highest_number_of_edges(deps) ==
  CHOOSE m \in {Len(deps[i].value) : i \in 1..Len(deps)} :
    \A i \in 1..Len(deps) : Len(deps[i].value) <= m

----------------------------------------------------------------------------
(* Actions *)

Init ==
  /\ pc = "start"
  /\ error = "none"
  /\ call = NoCall
  /\ adjacency_list = <<>>
  /\ edges = {}
  /\ num_nodes = 0
  /\ num_edges = 0
  /\ node_dependency_lists = <<>>
  /\ node_transition_rules = <<>>
  /\ node_states = <<>>
  /\ last_call = "none"
  /\ base_num_inputs = 0
  /\ base_inputs = <<>>
  /\ key_inputs = <<>>
  /\ keys = <<>>
  /\ num_transitions = 0
  /\ num_disturbances = 0
  /\ disturbance_times = <<>>
  /\ loop_i = 0
  /\ pixels = <<>>
  /\ calls = <<>>
  /\ time_steps = <<>>

\* Network.__init__ up to the first test of the loop in edge_algorithm_uniform.
Construct ==
  /\ pc = "start"
  /\ \E n \in SizeArgs, e \in SizeArgs, rp \in ProbArgs, ip \in ProbArgs :
       /\ size_of(n, e) <= MaxSize
       /\ call' = [fn |-> "__init__", num_nodes |-> n, num_edges |-> e,
                   rule_p |-> rp, init_p |-> ip]
       /\ num_nodes' = n
       /\ num_edges' = e
       /\ adjacency_list' = empty_adjacency(n)
  /\ edges' = {}
  /\ pc' = "edge_loop"
  /\ UNCHANGED <<error, node_dependency_lists, node_transition_rules, node_states, last_call>>
  /\ UNCHANGED outside_network

\* A direct call of edge_algorithm_uniform, up to the first test of its loop.
GenCall ==
  /\ pc = "start"
  /\ \E n \in GenNumNodesArgs, e \in GenNumEdgesArgs :
       /\ call' = [fn |-> "edge_algorithm_uniform", num_nodes |-> n, num_edges |-> e,
                   rule_p |-> 0, init_p |-> 0]
       /\ adjacency_list' = empty_adjacency(n)
  /\ edges' = {}
  /\ pc' = "edge_loop"
  /\ UNCHANGED <<error, network, last_call>>
  /\ UNCHANGED outside_network

\* One iteration of the while loop.  random.randint(0, num_nodes - 1) raises
\* ValueError on an empty range.
LoopDraw ==
  /\ pc = "edge_loop"
  /\ loop_condition(edges, call.num_edges)
  /\ IF call.num_nodes - 1 < 0
       THEN /\ pc' = "raised"
            /\ error' = "ValueError"
            /\ UNCHANGED <<adjacency_list, edges>>
       ELSE /\ \E node0 \in 0..(call.num_nodes - 1), node1 \in 0..(call.num_nodes - 1) :
                 LET after == loop_body(adjacency_list, edges, node0, node1) IN
                   /\ adjacency_list' = after.adjacency_list
                   /\ edges' = after.edges
            /\ UNCHANGED <<pc, error>>
  /\ UNCHANGED <<call, network, last_call>>
  /\ UNCHANGED outside_network

\* The loop test fails: return adjacency_list.
LoopExit ==
  /\ pc = "edge_loop"
  /\ ~loop_condition(edges, call.num_edges)
  /\ pc' = "returned"
  /\ UNCHANGED <<error, call, adjacency_list, edges, network, last_call>>
  /\ UNCHANGED outside_network

\* The rest of Network.__init__: _cleanup_adjacency, _generate_rules, the zero
\* vector and initialize_state, which replaces it.
InitRest ==
  /\ pc = "returned"
  /\ call.fn = "__init__"
  /\ LET deps == cleanup_adjacency(adjacency_list) IN
       /\ node_dependency_lists' = deps
       /\ node_transition_rules' \in generate_rules(deps, call.rule_p)
  /\ node_states' \in initialize_state_outcomes(num_nodes, call.init_p)
  /\ pc' = "ready"
  /\ call' = NoCall
  /\ adjacency_list' = <<>>
  /\ edges' = {}
  /\ last_call' = "initialize_state"
  /\ UNCHANGED <<error, num_nodes, num_edges>>
  /\ UNCHANGED outside_network

\* Network._cleanup_adjacency called on the result of a direct call.
CleanupCall ==
  /\ pc = "returned"
  /\ call.fn = "edge_algorithm_uniform"
  /\ node_dependency_lists' = cleanup_adjacency(adjacency_list)
  /\ pc' = "cleaned"
  /\ UNCHANGED <<error, call, adjacency_list, edges, num_nodes, num_edges,
                 node_transition_rules, node_states, last_call>>
  /\ UNCHANGED outside_network

\* initialize_state that also draws the rule tables again.
initialize_state_regenerating(p) ==
  /\ pc = "ready"
  /\ last_call' = "initialize_state"
  /\ node_states' \in initialize_state_outcomes(num_nodes, p)
  /\ node_transition_rules' \in generate_rules(node_dependency_lists, p)
  /\ UNCHANGED <<pc, error, call, adjacency_list, edges, num_nodes, num_edges,
                 node_dependency_lists>>
  /\ UNCHANGED outside_network

\* Network.initialize_state(p)
initialize_state(p) ==
  /\ pc = "ready"
  /\ last_call' = "initialize_state"
  /\ node_states' \in initialize_state_outcomes(num_nodes, p)
  /\ UNCHANGED <<pc, error, call, adjacency_list, edges, num_nodes, num_edges,
                 node_dependency_lists, node_transition_rules>>
  /\ UNCHANGED outside_network

\* Network.transition_state(); a subscript that is not defined raises.
transition_state ==
  /\ pc = "ready"
  /\ last_call' = "transition_state"
  /\ IF transition_defined(node_dependency_lists, node_transition_rules, node_states)
       THEN /\ node_states' =
                 new_node_states(node_dependency_lists, node_transition_rules, node_states)
            /\ UNCHANGED <<pc, error>>
       ELSE /\ pc' = "raised"
            /\ error' = "KeyError"
            /\ UNCHANGED node_states
  /\ UNCHANGED <<call, adjacency_list, edges, num_nodes, num_edges,
                 node_dependency_lists, node_transition_rules>>
  /\ UNCHANGED outside_network

\* Network.introduce_disturbance(p)
introduce_disturbance(p) ==
  /\ pc = "ready"
  /\ last_call' = "introduce_disturbance"
  /\ node_states' \in disturbance_outcomes(node_states, p)
  /\ UNCHANGED <<pc, error, call, adjacency_list, edges, num_nodes, num_edges,
                 node_dependency_lists, node_transition_rules>>
  /\ UNCHANGED outside_network

InitializeState == \E p \in ProbArgs : initialize_state(p)

TransitionState == transition_state

IntroduceDisturbance == \E p \in ProbArgs : introduce_disturbance(p)

\* A Network: construction, then any calls of its three methods.
Next ==
  \/ Construct
  \/ LoopDraw
  \/ LoopExit
  \/ InitRest
  \/ InitializeState
  \/ TransitionState
  \/ IntroduceDisturbance

Spec == Init /\ [][Next]_vars

\* The edge generator called on its own, then cleanup of what it returns.
NextGen ==
  \/ GenCall
  \/ LoopDraw
  \/ LoopExit
  \/ CleanupCall

SpecGen == Init /\ [][NextGen]_vars

\* The same under the scheduling the program has: a call that can start
\* starts, a loop test that fails ends the loop, and while some draw would
\* change the state (a pair not yet drawn, or the failing randint) uniform
\* draws do not miss all such draws forever.
SpecGenFair ==
  SpecGen /\ WF_vars(GenCall) /\ WF_vars(LoopDraw) /\ WF_vars(LoopExit) /\ WF_vars(CleanupCall)

----------------------------------------------------------------------------
(* The static methods _generate_base_truth_inputs and _create_truth_key,
   called alone *)

\* Network._generate_base_truth_inputs(num_inputs)
GenerateBaseTruthInputs ==
  /\ \E k \in NumInputsArgs :
       /\ base_num_inputs' = k
       /\ base_inputs' = generate_base_truth_inputs(k)
  /\ UNCHANGED <<pc, error, call, adjacency_list, edges, network, last_call,
                 key_inputs, keys, image_run, time_steps>>

\* Network._create_truth_key(truth_inputs), for a list of bits; two calls are kept.
CreateTruthKey ==
  /\ Len(key_inputs) < 2
  /\ \E k \in NumInputsArgs : \E bits \in [1..k -> {0, 1}] :
       /\ key_inputs' = Append(key_inputs, bits)
       /\ keys' = Append(keys, create_truth_key(bits))
  /\ UNCHANGED <<pc, error, call, adjacency_list, edges, network, last_call,
                 base_num_inputs, base_inputs, image_run, time_steps>>

NextCodec ==
  \/ GenerateBaseTruthInputs
  \/ CreateTruthKey

SpecCodec == Init /\ [][NextCodec]_vars

----------------------------------------------------------------------------
(* src/rbn/main.py: main() and generate_image, with the sizes and the run
   length that main() fixes (200 nodes, 200 edges, 400 transitions,
   4 disturbances) taken from small ranges.  An image is the list of its
   columns, each the list of its pixel rows; pixels[column, row] is
   pixels[column + 1][row + 1]. *)

\* Image.new("L", (width, height)): every pixel 0.
new_image(width, height) == [c \in 1..width |-> [r \in 1..height |-> 0]]

\* generate_image_slice
generate_image_slice(states) ==
  [r \in 1..Len(states) |-> IF states[r] = 0 THEN 0 ELSE 255]

\* write_image_slice: pixels[column, pixel_row] = pixel_value for every row of the slice.
write_image_slice(column, px, states) ==
  LET slice == generate_image_slice(states) IN
    [px EXCEPT ![column + 1] =
       [r \in 1..Len(@) |-> IF r <= Len(slice) THEN slice[r] ELSE @[r]]]

\* get_disturbance_time_slices: the loop over range(num_disturbances - 1),
\* `remaining` passes from its end.
RECURSIVE disturbance_times_loop(_, _, _, _)
disturbance_times_loop(times, current_disturbance_slice, disturbance_period, remaining) ==
  IF remaining <= 0 THEN times
  ELSE disturbance_times_loop(
         Append(times, current_disturbance_slice + disturbance_period),
         current_disturbance_slice + disturbance_period, disturbance_period, remaining - 1)

\* A schedule whose first event is at time 0.
get_disturbance_time_slices_from_zero(n, total_time_slices) ==
  LET disturbance_period == total_time_slices \div (n + 1) IN
    disturbance_times_loop(<<0>>, 0, disturbance_period, Len(range(n - 1)))

\* get_disturbance_time_slices(num_disturbances, total_time_slices), num_disturbances >= 0
get_disturbance_time_slices(n, total_time_slices) ==
  LET disturbance_period == total_time_slices \div (n + 1) IN
    disturbance_times_loop(<<disturbance_period>>, disturbance_period, disturbance_period,
                           Len(range(n - 1)))

\* A test that disturbs the step after each scheduled one.
disturbance_due_late(times, i) ==
  times # <<>> /\ \E j \in 1..Len(times) : times[j] = i - 1

\* generate_image: disturbance_times is not None and i in disturbance_times
disturbance_due(times, i) ==
  times # <<>> /\ \E j \in 1..Len(times) : times[j] = i

\* A record of one call made by generate_image: the function, the loop index
\* (the column, for the write before the loop) and network.node_states after it.
call_record(fn, i, states) == [fn |-> fn, i |-> i, node_states |-> states]

\* main(): Network(num_nodes, num_edges, edge_algorithm=edge_algorithm_uniform,
\* node_rule_activation_probability=0.1), up to the first test of the loop in
\* edge_algorithm_uniform, for sizes from which the construction returns.
Main ==
  /\ pc = "start"
  /\ \E n \in 1..ImageMaxSize, e \in 0..ImageMaxSize :
       /\ n + e <= ImageMaxSize
       /\ e <= n * n
       /\ call' = [fn |-> "__init__", num_nodes |-> n, num_edges |-> e,
                   rule_p |-> MainRuleProbability,
                   init_p |-> DefaultInitialStateProbability]
       /\ num_nodes' = n
       /\ num_edges' = e
       /\ adjacency_list' = empty_adjacency(n)
  /\ edges' = {}
  /\ pc' = "edge_loop"
  /\ UNCHANGED <<error, node_dependency_lists, node_transition_rules, node_states, last_call>>
  /\ UNCHANGED outside_network

\* generate_image(network, num_transitions, num_disturbances, disturbance_factor)
\* up to the first test of its loop.
GenerateImage ==
  /\ pc = "ready"
  /\ \E t \in 1..MaxTransitions, d \in 0..MaxDisturbances :
       /\ num_transitions' = t
       /\ num_disturbances' = d
       /\ pixels' = write_image_slice(0, new_image(t, num_nodes), node_states)
       /\ disturbance_times' =
            IF d # 0 THEN get_disturbance_time_slices(d, t) ELSE <<>>
  /\ loop_i' = 0
  /\ calls' = <<call_record("write_image_slice", 0, node_states)>>
  /\ time_steps' = <<node_states>>
  /\ pc' = "image_loop"
  /\ UNCHANGED <<error, call, adjacency_list, edges, network, last_call, codec>>

\* One pass of the loop of generate_image: the disturbance if one is due,
\* transition_state, write_image_slice(column=i, ...).
ImageStep ==
  /\ pc = "image_loop"
  /\ loop_i < num_transitions
  /\ LET due == disturbance_due(disturbance_times, loop_i) IN
     \E disturbed \in (IF due THEN disturbance_outcomes(node_states, MainDisturbanceFactor)
                              ELSE {node_states}) :
       LET disturbance == IF due THEN <<call_record("introduce_disturbance", loop_i, disturbed)>>
                                 ELSE <<>> IN
       IF transition_defined(node_dependency_lists, node_transition_rules, disturbed)
         THEN LET next_states ==
                    new_node_states(node_dependency_lists, node_transition_rules, disturbed) IN
                /\ node_states' = next_states
                /\ pixels' = write_image_slice(loop_i, pixels, next_states)
                /\ calls' = calls \o disturbance
                              \o <<call_record("transition_state", loop_i, next_states),
                                   call_record("write_image_slice", loop_i, next_states)>>
                /\ time_steps' = Append(time_steps, next_states)
                /\ loop_i' = loop_i + 1
                /\ last_call' = "transition_state"
                /\ UNCHANGED <<pc, error>>
         ELSE /\ node_states' = disturbed
              /\ calls' = calls \o disturbance
              /\ pc' = "raised"
              /\ error' = "KeyError"
              /\ UNCHANGED <<pixels, time_steps, loop_i, last_call>>
  /\ UNCHANGED <<call, adjacency_list, edges, num_nodes, num_edges,
                 node_dependency_lists, node_transition_rules,
                 num_transitions, num_disturbances, disturbance_times, codec>>

\* generate_image after its loop: image.save.
ImageSave ==
  /\ pc = "image_loop"
  /\ loop_i >= num_transitions
  /\ pc' = "saved"
  /\ UNCHANGED <<error, call, adjacency_list, edges, network, last_call, outside_network>>

NextImage ==
  \/ Main
  \/ LoopDraw
  \/ LoopExit
  \/ InitRest
  \/ GenerateImage
  \/ ImageStep
  \/ ImageSave

SpecImage == Init /\ [][NextImage]_vars

----------------------------------------------------------------------------
(* A constructed Network on which only transition_state is called *)

\* Network.transition_state, called again with no other call in between.
RepeatTransition ==
  /\ pc = "ready"
  /\ Len(time_steps) <= OrbitMaxSteps
  /\ last_call' = "transition_state"
  /\ IF transition_defined(node_dependency_lists, node_transition_rules, node_states)
       THEN /\ node_states' =
                 new_node_states(node_dependency_lists, node_transition_rules, node_states)
            /\ time_steps' = (IF time_steps = <<>> THEN <<node_states>> ELSE time_steps)
                               \o <<node_states'>>
            /\ UNCHANGED <<pc, error>>
       ELSE /\ pc' = "raised"
            /\ error' = "KeyError"
            /\ UNCHANGED <<node_states, time_steps>>
  /\ UNCHANGED <<call, adjacency_list, edges, num_nodes, num_edges,
                 node_dependency_lists, node_transition_rules, codec, image_run>>

NextOrbit ==
  \/ Construct
  \/ LoopDraw
  \/ LoopExit
  \/ InitRest
  \/ RepeatTransition

SpecOrbit == Init /\ [][NextOrbit]_vars

----------------------------------------------------------------------------
(* Properties *)

Nodes == 0..(num_nodes - 1)

\* The value a node of a constructed network must take in a synchronous step
\* from `states`: its own table's output for the bits its dependency list,
\* looked up by the node's key, selects from `states`, in list order.
synchronous_bit(n, states) ==
  LET dependency_nodes == dict_get(node_dependency_lists, n)
      bits == [j \in 1..Len(dependency_nodes) |-> states[dependency_nodes[j] + 1]]
  IN node_transition_rules[n + 1][create_truth_key(bits)]

copy_input == ("0" :> 0) @@ ("1" :> 1)

\* Node 0 depends only on node 1, node 1 only on node 0, both rules copy the input.
SwapNetwork ==
  /\ node_dependency_lists = <<[key |-> 0, value |-> <<1>>], [key |-> 1, value |-> <<0>>]>>
  /\ node_transition_rules = <<copy_input, copy_input>>

\* C1: transition_state is a synchronous update: every node's new bit is its rule
\* table's output for the values its dependency list had in the state vector
\* before the call; in the 2-node swap network one call swaps the two bits.
C1_SynchronousUpdate ==
  [][(pc = "ready" /\ pc' = "ready" /\ last_call' = "transition_state") =>
       /\ Len(node_states') = Len(node_dependency_lists)
       /\ \A n \in Nodes : node_states'[n + 1] = synchronous_bit(n, node_states)
       /\ (SwapNetwork => node_states' = <<node_states[2], node_states[1]>>)]_vars

\* The swap network right after a transition_state that left it in state [0, 1].
C1_Witness ==
  /\ pc = "ready"
  /\ last_call = "transition_state"
  /\ SwapNetwork
  /\ node_states = <<0, 1>>

\* C3: introduce_disturbance(0) leaves the state vector unchanged and
\* introduce_disturbance(1) flips every bit; for any probability each new bit is
\* the old bit or its complement and the length is unchanged.
C3_Disturbance ==
  [][(pc = "ready" /\ last_call' = "introduce_disturbance") =>
       /\ Len(node_states') = Len(node_states)
       /\ \A i \in 1..Len(node_states) :
            node_states'[i] \in {node_states[i], 1 - node_states[i]}
       /\ (introduce_disturbance(0) => node_states' = node_states)
       /\ (introduce_disturbance(100) =>
             \A i \in 1..Len(node_states) : node_states'[i] = 1 - node_states[i])]_vars

\* A three-node network right after introduce_disturbance, with mixed bits.
C3_Witness ==
  /\ pc = "ready"
  /\ last_call = "introduce_disturbance"
  /\ node_states = <<1, 0, 1>>

\* Number of positions of list l that hold x.
occurrences(l, x) == Cardinality({j \in 1..Len(l) : l[j] = x})

RECURSIVE total_length(_)
total_length(d) == IF d = <<>> THEN 0 ELSE Len(Head(d).value) + total_length(Tail(d))

GenNodes == 0..(call.num_nodes - 1)

\* edge_algorithm_uniform(N, E) has returned, with N >= 1 and 0 <= E <= N * N.
GenReturnedInBudget ==
  /\ pc = "returned"
  /\ call.fn = "edge_algorithm_uniform"
  /\ call.num_nodes >= 1
  /\ call.num_edges >= 0
  /\ call.num_edges <= call.num_nodes * call.num_nodes

\* C4: when edge_algorithm_uniform(N, E) returns (N >= 1, 0 <= E <= N * N) it has
\* recorded exactly E distinct ordered pairs (source, target) over [0, N); each
\* recorded pair (s, t) puts s exactly once into t's list, no other entry is in
\* any list, and the list lengths sum to E.
C4_ExactlyEDistinctEdges ==
  GenReturnedInBudget =>
    /\ Cardinality(edges) = call.num_edges
    /\ edges \subseteq GenNodes \X GenNodes
    /\ Len(adjacency_list) = call.num_nodes
    /\ \A t \in GenNodes : adjacency_list[t + 1].key = t
    /\ \A s \in GenNodes, t \in GenNodes :
         occurrences(dict_get(adjacency_list, t), s) = IF <<s, t>> \in edges THEN 1 ELSE 0
    /\ total_length(adjacency_list) = call.num_edges

\* edge_algorithm_uniform(2, 3) returned three edges, one of them a self-loop,
\* two of them into node 1.
C4_Witness ==
  /\ GenReturnedInBudget
  /\ call.num_nodes = 2
  /\ call.num_edges = 3
  /\ <<1, 1>> \in edges
  /\ Len(dict_get(adjacency_list, 1)) = 2

\* C5: a request for more edges than there are distinct pairs is detected: the
\* loop is never left waiting for an edge that no draw can supply.  While the
\* loop is short of num_edges, some draw ends it or adds an edge.
C5_EdgeBudgetDetected ==
  (pc = "edge_loop" /\ loop_condition(edges, call.num_edges)) =>
    \/ call.num_nodes < 1
    \/ \E node0 \in GenNodes, node1 \in GenNodes : <<node0, node1>> \notin edges

\* Under SpecGenFair: every call within the budget (or with no node to draw)
\* leaves the loop, and not every call does.
InBudgetCallsReturn ==
  (pc = "edge_loop" /\ call.num_edges <= call.num_nodes * call.num_nodes) ~> (pc # "edge_loop")

EveryCallReturns == (pc = "edge_loop") ~> (pc # "edge_loop")

\* The constructor arguments the specification calls valid.
ValidParameters(c) ==
  /\ c.num_nodes > 0
  /\ c.num_edges >= 0
  /\ c.rule_p \in 0..100
  /\ c.init_p \in 0..100

\* C6: construction fails, and yields no usable Network, whenever num_nodes <= 0,
\* num_edges < 0 or a probability lies outside [0, 1]: __init__ completes only
\* on valid parameters.
C6_InvalidParameterRejected ==
  [][(call.fn = "__init__" /\ pc' = "ready") => ValidParameters(call)]_vars

\* C7: after _cleanup_adjacency of a generated adjacency list (N > 0) every
\* node's list is non-empty: an empty generated list becomes [node], a
\* non-empty one is kept as it is.
C7_CleanupNonEmpty ==
  (pc = "cleaned" /\ call.num_nodes > 0) =>
    /\ Len(node_dependency_lists) = call.num_nodes
    /\ \A n \in GenNodes :
         LET generated == dict_get(adjacency_list, n)
             cleaned == dict_get(node_dependency_lists, n)
         IN /\ node_dependency_lists[n + 1].key = n
            /\ Len(cleaned) >= 1
            /\ (generated = <<>> => cleaned = <<n>>)
            /\ (generated # <<>> => cleaned = generated)

\* Cleanup of a 2-node adjacency list: node 0 got no in-edge, node 1 got
\* 1 -> 1 and then 0 -> 1.
C7_Witness ==
  /\ pc = "cleaned"
  /\ call.num_nodes = 2
  /\ adjacency_list = <<[key |-> 0, value |-> <<>>], [key |-> 1, value |-> <<1, 0>>]>>
  /\ node_dependency_lists = <<[key |-> 0, value |-> <<0>>], [key |-> 1, value |-> <<1, 0>>]>>

\* C8: with E = 0 and N > 0 the edge generator returns without a draw and with
\* every list empty; after cleanup node n's dependency list is exactly [n] and
\* every rule table has exactly the two keys of arity 1.
C8_NoEdges ==
  /\ (pc \in {"edge_loop", "returned"} /\ call.num_edges = 0 /\ call.num_nodes > 0) =>
       /\ ~loop_condition(edges, call.num_edges)
       /\ edges = {}
       /\ Len(adjacency_list) = call.num_nodes
       /\ \A n \in GenNodes : dict_get(adjacency_list, n) = <<>>
  /\ (pc = "ready" /\ num_edges = 0 /\ num_nodes > 0) =>
       /\ Len(node_dependency_lists) = num_nodes
       /\ Len(node_transition_rules) = num_nodes
       /\ \A n \in Nodes :
            /\ node_dependency_lists[n + 1] = [key |-> n, value |-> <<n>>]
            /\ DOMAIN node_transition_rules[n + 1] = {"0", "1"}

\* Network(3, 0, ...) constructed.
C8_Witness ==
  /\ pc = "ready"
  /\ num_nodes = 3
  /\ num_edges = 0
  /\ Len(node_transition_rules) = 3

\* The strings of k characters over "0" and "1".
RECURSIVE bit_strings(_)
bit_strings(k) ==
  IF k = 0 THEN {""} ELSE {prefix \o bit : prefix \in bit_strings(k - 1), bit \in {"0", "1"}}

RECURSIVE power_of_two(_)
power_of_two(k) == IF k = 0 THEN 1 ELSE 2 * power_of_two(k - 1)

\* C9: in a constructed Network the rule table stored at a node's index has as
\* its key set exactly the 2^k encoded bit sequences of length k, k >= 1 being
\* the length of the node's dependency list, and every output is 0 or 1.
C9_RuleTableTotal ==
  pc = "ready" =>
    /\ Len(node_transition_rules) = Len(node_dependency_lists)
    /\ \A i \in 1..Len(node_dependency_lists) :
         LET k == Len(node_dependency_lists[i].value)
             node_rule == node_transition_rules[node_dependency_lists[i].key + 1]
         IN /\ k >= 1
            /\ DOMAIN node_rule = bit_strings(k)
            /\ Cardinality(DOMAIN node_rule) = power_of_two(k)
            /\ \A truth_key \in DOMAIN node_rule : node_rule[truth_key] \in {0, 1}

\* A constructed 2-node network in which node 1 depends on both nodes (four
\* keys) and node 0 on itself alone (two keys).
C9_Witness ==
  /\ pc = "ready"
  /\ num_nodes = 2
  /\ Len(dict_get(node_dependency_lists, 1)) = 2
  /\ Len(dict_get(node_dependency_lists, 0)) = 1

\* C10: topology and rules are immutable after construction: no call of
\* initialize_state, transition_state or introduce_disturbance changes
\* node_dependency_lists, node_transition_rules, num_nodes or num_edges.
C10_TopologyAndRulesImmutable ==
  [][pc = "ready" =>
       /\ node_dependency_lists' = node_dependency_lists
       /\ node_transition_rules' = node_transition_rules
       /\ num_nodes' = num_nodes
       /\ num_edges' = num_edges]_vars

\* A network with a two-input node right after introduce_disturbance.
C10_Witness ==
  /\ pc = "ready"
  /\ last_call = "introduce_disturbance"
  /\ \E i \in 1..Len(node_dependency_lists) : Len(node_dependency_lists[i].value) = 2

\* A Network constructed from arguments within the edge budget.
ConstructedInBudget ==
  /\ num_nodes >= 1
  /\ num_edges >= 0
  /\ num_edges <= num_nodes * num_nodes

\* C14: in a Network constructed with N >= 1 and 0 <= E <= N * N, whatever
\* methods are called, transition_state never computes a truth key that its
\* node's rule table lacks: no subscript of transition_state is undefined and
\* the KeyError outcome is not reached.
C14_NoInternalConsistencyFailure ==
  ConstructedInBudget =>
    /\ error # "KeyError"
    /\ pc # "raised"
    /\ (pc = "ready" =>
          transition_defined(node_dependency_lists, node_transition_rules, node_states))

\* A 2-node network with both edges into node 0, right after transition_state.
C14_Witness ==
  /\ pc = "ready"
  /\ last_call = "transition_state"
  /\ num_nodes = 2
  /\ num_edges = 2
  /\ Len(dict_get(node_dependency_lists, 0)) = 2

\* C17: in a constructed Network the state vector has one entry per node (as
\* many as there are dependency lists, which is num_nodes whenever num_nodes is
\* a count), entry n belongs to node n, and every entry is 0 or 1, after
\* construction and after every method call.
C17_StateVectorShape ==
  pc = "ready" =>
    /\ Len(node_states) = Len(node_dependency_lists)
    /\ (num_nodes >= 0 => Len(node_states) = num_nodes)
    /\ \A i \in 1..Len(node_states) :
         /\ node_dependency_lists[i].key = i - 1
         /\ node_states[i] \in {0, 1}

\* A 4-node network right after a transition_state that gave a mixed vector.
C17_Witness ==
  /\ pc = "ready"
  /\ last_call = "transition_state"
  /\ num_nodes = 4
  /\ node_states = <<0, 1, 1, 0>>

\* Nodes whose generated list is empty.
isolated_nodes(adj) == {i \in 1..Len(adj) : adj[i].value = <<>>}

\* What C18 says of the statistics of the network that __init__ builds from
\* the arguments c and the generated adjacency list adj.
EdgeStatistics(c, adj, deps) ==
  /\ total_number_of_edges(deps) = c.num_edges + Cardinality(isolated_nodes(adj))
  /\ total_number_of_edges(deps) >= (IF c.num_edges > 1 THEN c.num_edges ELSE 1)
  /\ ~print_stats_raises(deps)
  /\ highest_number_of_edges(deps) >= 1
  /\ highest_number_of_edges(deps) <= c.num_nodes
  /\ \A i \in 1..Len(deps) : \A x \in 0..(c.num_nodes - 1) : occurrences(deps[i].value, x) <= 1

\* C18: the total edge count of a constructed Network is the requested E plus
\* the number of nodes that got no in-edge, hence at least max(E, 1), and the
\* maximum in-degree is between 1 and N, no list holding a node twice.
C18_EdgeStatistics ==
  [][(call.fn = "__init__" /\ pc = "returned" /\ pc' = "ready") =>
       EdgeStatistics(call, adjacency_list, node_dependency_lists')]_vars

\* The same for arguments with N >= 1 and 0 <= E <= N * N only.
EdgeStatisticsInBudget ==
  [][(call.fn = "__init__" /\ pc = "returned" /\ pc' = "ready"
        /\ call.num_nodes >= 1 /\ call.num_edges >= 0) =>
       EdgeStatistics(call, adjacency_list, node_dependency_lists')]_vars

\* a comes before b in lexicographic order (equal lengths).
lexicographically_before(a, b) ==
  \E i \in 1..Len(a) : a[i] < b[i] /\ \A j \in 1..(i - 1) : a[j] = b[j]

\* C12: _generate_base_truth_inputs(k) returns exactly 2^k sequences, each of
\* k entries from {0, 1}, in strictly increasing lexicographic order (so they
\* are pairwise distinct), for every k >= 0; for k = 2 they are (0,0), (0,1),
\* (1,0), (1,1).
C12_BaseTruthInputs ==
  base_inputs # <<>> =>
    /\ Len(base_inputs) = power_of_two(base_num_inputs)
    /\ \A j \in 1..Len(base_inputs) :
         /\ Len(base_inputs[j]) = base_num_inputs
         /\ \A i \in 1..base_num_inputs : base_inputs[j][i] \in {0, 1}
    /\ \A j, l \in 1..Len(base_inputs) :
         j < l => lexicographically_before(base_inputs[j], base_inputs[l])
    /\ (base_num_inputs = 2 => base_inputs = << <<0, 0>>, <<0, 1>>, <<1, 0>>, <<1, 1>> >>)

\* _generate_base_truth_inputs(3) has returned.
C12_Witness ==
  /\ base_num_inputs = 3
  /\ Len(base_inputs) = 8
  /\ base_inputs[6] = <<1, 0, 1>>

\* C13: _create_truth_key is injective on bit sequences of equal length: two
\* calls with distinct sequences of the same length return different keys, and
\* the key returned for a sequence of k bits is the key of no other sequence of
\* k bits, so among the 2^k rows of a table for k inputs it is the key of that
\* sequence's row only.
C13_TruthKeyInjective ==
  /\ \A a, b \in 1..Len(key_inputs) :
       (Len(key_inputs[a]) = Len(key_inputs[b]) /\ key_inputs[a] # key_inputs[b])
         => keys[a] # keys[b]
  /\ \A a \in 1..Len(key_inputs) :
       \A bits \in [1..Len(key_inputs[a]) -> {0, 1}] :
         (create_truth_key(bits) = keys[a]) <=> (bits = key_inputs[a])

\* Two distinct sequences of three bits with equally many ones have been encoded.
C13_Witness ==
  /\ key_inputs = << <<0, 1, 0>>, <<0, 0, 1>> >>
  /\ keys = <<"010", "001">>

\* The calls of `fn` that generate_image has made, in order.
calls_of(fn) == SelectSeq(calls, LAMBDA c : c.fn = fn)

\* C11: for D >= 1 and a run of length T, get_disturbance_time_slices(D, T)
\* returns exactly D times, the i-th (i = 1..D) being i * floor(T / (D + 1));
\* D = 4 and T = 2000 give [400, 800, 1200, 1600].
C11_DisturbanceSchedule ==
  /\ (pc \in {"image_loop", "saved"} /\ num_disturbances >= 1) =>
       /\ Len(disturbance_times) = num_disturbances
       /\ \A j \in 1..num_disturbances :
            disturbance_times[j] = j * (num_transitions \div (num_disturbances + 1))
  /\ get_disturbance_time_slices(4, 2000) = <<400, 800, 1200, 1600>>

\* generate_image holds the schedule of 2 disturbances over 3 transitions.
C11_Witness ==
  /\ pc = "image_loop"
  /\ num_disturbances = 2
  /\ num_transitions = 3
  /\ disturbance_times = <<1, 2>>

\* C15: a finished run of generate_image with T transitions and D requested
\* disturbances, 0 <= D < T, has applied introduce_disturbance exactly D times
\* (never for D = 0), once at each loop step i = j * floor(T / (D + 1)),
\* j = 1..D, with 0 < i < T, each immediately followed by transition_state of
\* the same step, and has run transition_state exactly T times, once per step.
C15_DisturbancesApplied ==
  (pc = "saved" /\ num_disturbances < num_transitions) =>
    LET period == num_transitions \div (num_disturbances + 1) IN
      /\ Len(calls_of("introduce_disturbance")) = num_disturbances
      /\ \A j \in 1..num_disturbances :
           /\ calls_of("introduce_disturbance")[j].i = j * period
           /\ 0 < j * period
           /\ j * period < num_transitions
      /\ \A k \in 1..Len(calls) :
           calls[k].fn = "introduce_disturbance" =>
             /\ k < Len(calls)
             /\ calls[k + 1].fn = "transition_state"
             /\ calls[k + 1].i = calls[k].i
      /\ Len(calls_of("transition_state")) = num_transitions
      /\ \A k \in 1..num_transitions : calls_of("transition_state")[k].i = k - 1

\* A finished run of 3 transitions with 2 disturbances.
C15_Witness ==
  /\ pc = "saved"
  /\ num_transitions = 3
  /\ num_disturbances = 2
  /\ Len(calls_of("introduce_disturbance")) = 2

\* C16: the finished image holds the initial state vector in column 0 and the
\* state vector of time step t in every later column t, and no column has been
\* written twice with different state vectors.
C16_ImageHoldsEveryTimeStep ==
  pc = "saved" =>
    /\ \A t \in 0..(num_transitions - 1) :
         pixels[t + 1] = generate_image_slice(time_steps[t + 1])
    /\ \A k, l \in 1..Len(calls) :
         (calls[k].fn = "write_image_slice" /\ calls[l].fn = "write_image_slice"
            /\ calls[k].i = calls[l].i)
           => calls[k].node_states = calls[l].node_states

\* C19: with only transition_state called, the sequence of state vectors of
\* an N-node network is eventually periodic: once more than 2^N transitions
\* have run, two of the first 2^N + 1 vectors are equal, and whenever the
\* vectors of two time steps are equal, the vectors that follow them are
\* equal step for step (a fixed period from the first recurrence on).
C19_EventuallyPeriodic ==
  LET n == Len(node_dependency_lists)
      steps == Len(time_steps)
  IN /\ steps > power_of_two(n) =>
          \E a, b \in 1..(power_of_two(n) + 1) : a < b /\ time_steps[a] = time_steps[b]
     /\ \A a, b \in 1..steps :
          (a < b /\ time_steps[a] = time_steps[b]) =>
            \A k \in 0..(steps - b) : time_steps[a + k] = time_steps[b + k]

\* A 2-node network that leaves [0, 0] for the cycle [0, 1], [1, 0], followed
\* for OrbitMaxSteps transitions.
C19_Witness ==
  /\ pc = "ready"
  /\ Len(time_steps) = OrbitMaxSteps + 1
  /\ time_steps[1] = <<0, 0>>
  /\ time_steps[2] = <<0, 1>>
  /\ time_steps[3] = <<1, 0>>
  /\ time_steps[4] = <<0, 1>>

====
